---- MODULE Spec2Model ----
(***************************************************************************)
(* Model of the Hive Engine token distribution run of mining_arc:          *)
(* TokenConfig.from_env, TokenHolder.payment_amount and the methods of     *)
(* TokenDistributor, run in the order main() calls them.                   *)
(*                                                                         *)
(* Decimal values are modelled as Python's decimal module keeps them: a    *)
(* sign, a coefficient (a sequence of decimal digits, most significant     *)
(* first, no leading zeros) and an exponent.  Arithmetic is digit by       *)
(* digit, so the 16-digit context precision is modelled at full width.     *)
(* Texts that the program parses or formats (balances, the payout rate,    *)
(* the payment column) are sequences of one-character strings.             *)
(***************************************************************************)
EXTENDS Integers, Sequences, FiniteSets, TLC

(***************************************************************************)
(* Bounds and program constants                                            *)
(***************************************************************************)
\* longest holder list the balance source returns
MaxRaw == 2

\* getcontext().prec = 16
Prec == 16

\* Decimal("0.0001"): exponent of the payment quantum
PaymentExp == 0 - 4

\* Decimal("1."): exponent of the whole-unit balance quantum
UnitExp == 0

(***************************************************************************)
(* Natural numbers as digit sequences (the coefficient of a Decimal)       *)
(***************************************************************************)
MaxOf(a, b) == IF a >= b THEN a ELSE b

MinOf(a, b) == IF a <= b THEN a ELSE b

Zeros(n) == [i \in 1..n |-> 0]

IsZeroCoef(d) == \A i \in 1..Len(d) : d[i] = 0

\* d without its leading zeros (<<0>> for zero)
StripZeros(d) ==
  IF IsZeroCoef(d) THEN <<0>>
  ELSE LET k == CHOOSE i \in 1..Len(d) :
                  d[i] # 0 /\ \A j \in 1..(i - 1) : d[j] = 0
       IN  SubSeq(d, k, Len(d))

PadLeft(d, n) == Zeros(n - Len(d)) \o d

\* a + b for a, b of the same length n, as n + 1 digits: position i takes
\* a carry when a column to its right overflows and every column between
\* is a 9
AddAligned(a, b) ==
  LET n == Len(a)
      x == <<0>> \o a
      y == <<0>> \o b
      carry(i) == \E j \in (i + 1)..(n + 1) :
                    /\ x[j] + y[j] >= 10
                    /\ \A k \in (i + 1)..(j - 1) : x[k] + y[k] = 9
  IN  SubSeq([i \in 1..(n + 1) |->
                (x[i] + y[i] + (IF carry(i) THEN 1 ELSE 0)) % 10], 1, n + 1)

NatAdd(a, b) ==
  LET n == MaxOf(Len(a), Len(b))
  IN  StripZeros(AddAligned(PadLeft(a, n), PadLeft(b, n)))

\* digits of a * d for a single digit d, from position i leftwards
RECURSIVE MulFrom(_, _, _, _)
MulFrom(a, d, i, carry) ==
  IF i = 0 THEN (IF carry = 0 THEN <<>> ELSE <<carry>>)
  ELSE LET s == a[i] * d + carry
       IN  IF s < 10
           THEN Append(MulFrom(a, d, i - 1, 0), s)
           ELSE Append(MulFrom(a, d, i - 1, s \div 10), s % 10)

MulDigit(a, d) == StripZeros(MulFrom(a, d, Len(a), 0))

\* a * b, one digit of b at a time from the most significant:
\* acc is a times the first j - 1 digits of b
RECURSIVE MulAcc(_, _, _, _)
MulAcc(a, b, j, acc) ==
  IF j > Len(b) \/ Len(acc) = 0 THEN acc
  ELSE MulAcc(a, b, j + 1, NatAdd(acc \o <<0>>, MulDigit(a, b[j])))

\* the shorter operand supplies the digits
NatMul(a, b) ==
  IF Len(a) >= Len(b) THEN MulAcc(a, b, 1, <<0>>) ELSE MulAcc(b, a, 1, <<0>>)

\* -1, 0 or 1 as a < b, a = b, a > b (both without leading zeros)
NatCmp(a, b) ==
  LET x == StripZeros(a)
      y == StripZeros(b)
  IN  IF Len(x) < Len(y) THEN 0 - 1
      ELSE IF Len(x) > Len(y) THEN 1
      ELSE IF \A i \in 1..Len(x) : x[i] = y[i] THEN 0
      ELSE LET k == CHOOSE i \in 1..Len(x) :
                      x[i] # y[i] /\ \A j \in 1..(i - 1) : x[j] = y[j]
           IN  IF x[k] < y[k] THEN 0 - 1 ELSE 1

(***************************************************************************)
(* Decimal: [sign, int, exp], value (-1)^sign * int * 10^exp               *)
(***************************************************************************)
Dec(s, c, e) == [sign |-> s, int |-> c, exp |-> e]

DecIsZero(d) == IsZeroCoef(d.int)

\* a Decimal brought to exponent e <= d.exp without changing its value
Aligned(d, e) == StripZeros(d.int \o Zeros(d.exp - e))

\* sign of (x - y) for Decimals x, y: -1, 0 or 1
DecCmp(x, y) ==
  LET e  == MinOf(x.exp, y.exp)
      cx == Aligned(x, e)
      cy == Aligned(y, e)
      sx == IF IsZeroCoef(cx) THEN 0 ELSE IF x.sign = 1 THEN 0 - 1 ELSE 1
      sy == IF IsZeroCoef(cy) THEN 0 ELSE IF y.sign = 1 THEN 0 - 1 ELSE 1
  IN  IF sx # sy THEN (IF sx < sy THEN 0 - 1 ELSE 1)
      ELSE IF sx = 0 THEN 0
      ELSE sx * NatCmp(cx, cy)

\* Decimal._fix: round the coefficient to the context precision,
\* ROUND_HALF_EVEN (the default rounding of the context)
Fix(d) ==
  IF Len(d.int) <= Prec THEN d
  ELSE LET keep == SubSeq(d.int, 1, Prec)
           rest == SubSeq(d.int, Prec + 1, Len(d.int))
           tailZero == IsZeroCoef(Tail(rest))
           up == \/ rest[1] > 5
                 \/ rest[1] = 5 /\ ~tailZero
                 \/ rest[1] = 5 /\ tailZero /\ keep[Prec] % 2 = 1
           coef == IF up THEN NatAdd(keep, <<1>>) ELSE keep
           e == d.exp + Len(rest)
       IN  IF Len(coef) > Prec
           THEN Dec(d.sign, SubSeq(coef, 1, Prec), e + 1)
           ELSE Dec(d.sign, coef, e)

\* the exact product, before the context rounds it
ExactMul(x, y) == Dec((x.sign + y.sign) % 2, NatMul(x.int, y.int), x.exp + y.exp)

\* Decimal.__mul__ under the context
DecMul(x, y) == Fix(ExactMul(x, y))

\* Decimal.__add__ under the context, for operands of sign 0
DecAdd(x, y) ==
  LET e == MinOf(x.exp, y.exp)
  IN  Fix(Dec(0, NatAdd(Aligned(x, e), Aligned(y, e)), e))

\* Decimal._rescale(e, ROUND_DOWN): drop the digits below 10^e
Rescale(d, e) ==
  IF DecIsZero(d) THEN Dec(d.sign, <<0>>, e)
  ELSE IF d.exp >= e THEN Dec(d.sign, d.int \o Zeros(d.exp - e), e)
  ELSE LET digits == Len(d.int) + d.exp - e
       IN  Dec(d.sign,
               IF digits <= 0 THEN <<0>> ELSE SubSeq(d.int, 1, digits),
               e)

\* Decimal.quantize signals InvalidOperation when the result would need
\* more than Prec digits
QuantizeRaises(d, e) ==
  /\ ~DecIsZero(d)
  /\ (d.exp + Len(d.int) - 1) - e + 1 > Prec

\* Decimal.quantize(Decimal with exponent e, rounding=ROUND_DOWN)
Quantize(d, e) == Rescale(d, e)

(***************************************************************************)
(* Texts: Decimal(text), str(Decimal), f"{Decimal:.4f}"                    *)
(***************************************************************************)
DigitChars == <<"0", "1", "2", "3", "4", "5", "6", "7", "8", "9">>

IsDigitChar(c) == \E i \in 1..Len(DigitChars) : DigitChars[i] = c

DigitOf(c) == (CHOOSE i \in 1..Len(DigitChars) : DigitChars[i] = c) - 1

CharsOf(ds) == [i \in 1..Len(ds) |-> DigitChars[ds[i] + 1]]

Unsigned(t) == IF Len(t) > 0 /\ t[1] \in {"-", "+"} THEN Tail(t) ELSE t

PointAt(b) == {i \in 1..Len(b) : b[i] = "."}

\* Decimal(text) raises InvalidOperation unless the text is a number:
\* an optional sign, digits, at most one point
DecimalParses(t) ==
  LET b == Unsigned(t)
  IN  /\ Cardinality(PointAt(b)) <= 1
      /\ \A i \in 1..Len(b) : b[i] = "." \/ IsDigitChar(b[i])
      /\ \E i \in 1..Len(b) : IsDigitChar(b[i])

\* Decimal(text): exact, whatever the context precision
DecimalOf(t) ==
  LET b  == Unsigned(t)
      p  == PointAt(b)
      ds == SelectSeq(b, IsDigitChar)
      frac == IF p = {} THEN 0 ELSE Len(b) - (CHOOSE i \in p : TRUE)
  IN  Dec(IF t[1] = "-" THEN 1 ELSE 0,
          StripZeros([i \in 1..Len(ds) |-> DigitOf(ds[i])]),
          0 - frac)

\* str(d) for a Decimal of exponent 0 (a whole-unit balance)
DecStr(d) == (IF d.sign = 1 THEN <<"-">> ELSE <<>>) \o CharsOf(d.int)

\* f"{d:.4f}" for a Decimal of exponent >= -4: the format pads with zeros
\* and has nothing to round (every amount formatted is quantized to -4)
Format4f(d) ==
  LET c == Aligned(d, PaymentExp)
      w == PadLeft(c, MaxOf(Len(c), 1 - PaymentExp))
      n == Len(w) + PaymentExp
  IN  (IF d.sign = 1 THEN <<"-">> ELSE <<>>)
        \o CharsOf(SubSeq(w, 1, n)) \o <<".">> \o CharsOf(SubSeq(w, n + 1, Len(w)))

(***************************************************************************)
(* Inputs: the environment, the balance source, the transfer collaborator  *)
(***************************************************************************)
\* PAYOUT_RATE texts (the first is the default of from_env)
RateTexts ==
  { <<"0", ".", "2", "5">>,
    <<"0", ".", "0", "0", "0", "0", "1">>,
    <<"0">>,
    <<"-", "0", ".", "2", "5">>,
    <<"0", ".">> \o [i \in 1..17 |-> "3"],
    <<"1">> \o [i \in 1..12 |-> "0"],
    <<"x">> }

\* BLACKLISTED_ACCOUNTS after split(","): the default of from_env
Blacklists == { {"ufm.pay", "upfundme"} }

RawHolder(a, b) == [account |-> a, balance |-> b]

\* records the balance source may return
RawHolders ==
  { RawHolder("alice", <<"1", "0", "0">>),
    RawHolder("bob", <<"3", ".", "7">>),
    RawHolder("carol", <<"0", ".", "5">>),
    RawHolder("dave", <<"0">>),
    RawHolder("ufm.pay", <<"1", "0", "0">>),
    RawHolder("erin", <<"x">>),
    RawHolder("frank", <<"1">> \o [i \in 1..Prec |-> "0"]),
    RawHolder("ufm.pay", <<"1">> \o [i \in 1..Prec |-> "0"]) }

RawLists == UNION { [1..n -> RawHolders] : n \in 0..MaxRaw }

\* what hive_wallet.transfer does: raise, return a response carrying a
\* trx_id, return a response whose trx_id is empty or missing, return
\* nothing (None or an empty dict)
TransferOutcomes == {"raises", "trx_id", "no_trx_id", "nothing"}

\* Optional[str]: <<>> is None, <<s>> is the string s
None == <<>>

Some(s) == <<s>>

Truthy(o) == o # None /\ o[1] # ""

OrEmpty(o) == IF Truthy(o) THEN o[1] ELSE ""

\* a dict key not yet set; <<v>> once it is set to v
Absent == <<>>

(***************************************************************************)
(* State                                                                   *)
(***************************************************************************)
VARIABLES
  env,          \* the process environment (os.getenv)
  pc,           \* where main() is: "start", "richlist", "pay", "audit",
                \* "summary", "done"; "exit" after sys.exit(1); "crashed"
                \* after an exception nothing catches
  config,       \* self.config
  stats,        \* self.stats
  audit_log,    \* self.audit_log
  richlist_raw, \* what token.get_holder() answered
  holders,      \* the list get_richlist returned to main()
  idx,          \* position of the for loop of process_payments
  transfers,    \* the calls hive_wallet.transfer has received, in order,
                \* each with what the collaborator did
  audit_file,   \* the CSV file of generate_audit_report
  clock         \* time.time(), in seconds

vars == <<env, pc, config, stats, audit_log, richlist_raw, holders, idx,
          transfers, audit_file, clock>>

\* TokenConfig.from_env
from_env(e) ==
  [ payout_rate |-> DecimalOf(e.PAYOUT_RATE),
    blacklisted_accounts |-> e.BLACKLISTED_ACCOUNTS,
    nobroadcast |-> e.DRY_RUN ]

\* Decimal(os.getenv("PAYOUT_RATE", ...)) raises InvalidOperation
from_env_raises(e) == ~DecimalParses(e.PAYOUT_RATE)

\* validate_environment: the variables that are missing
missing_vars(e) ==
  {v \in {"ACTIVE_WIF", "POSTING_WIF"} : ~e[v]}

\* self.config before __init__ has set it
NoConfig ==
  [ payout_rate |-> Dec(0, <<0>>, 0),
    blacklisted_accounts |-> {},
    nobroadcast |-> FALSE ]

\* self.stats as __init__ sets it
InitStats ==
  [ total_holders |-> 0,
    successful_payments |-> 0,
    failed_payments |-> 0,
    total_tokens_distributed |-> Dec(0, <<0>>, 0) ]

NoFile == [written |-> FALSE, rows |-> <<>>]

Init ==
  /\ env \in [ PAYOUT_RATE : RateTexts,
               BLACKLISTED_ACCOUNTS : Blacklists,
               DRY_RUN : BOOLEAN,
               ACTIVE_WIF : BOOLEAN,
               POSTING_WIF : BOOLEAN ]
  /\ pc = "start"
  /\ config = NoConfig
  /\ stats = InitStats
  /\ audit_log = <<>>
  /\ richlist_raw = [raised |-> FALSE, list |-> <<>>]
  /\ holders = <<>>
  /\ idx = 1
  /\ transfers = <<>>
  /\ audit_file = NoFile
  /\ clock = 0

(***************************************************************************)
(* TokenDistributor.__init__                                               *)
(***************************************************************************)
\* from_env raises: nothing catches it
ConstructCrash ==
  /\ pc = "start"
  /\ from_env_raises(env)
  /\ pc' = "crashed"
  /\ UNCHANGED <<env, config, stats, audit_log, richlist_raw, holders, idx,
                 transfers, audit_file, clock>>

\* validate_environment finds a secret missing, or initialize_blockchain
\* catches an exception of the node or wallet: sys.exit(1)
ConstructExit ==
  /\ pc = "start"
  /\ ~from_env_raises(env)
  /\ \E blockchain_raises \in BOOLEAN :
       missing_vars(env) # {} \/ blockchain_raises
  /\ config' = from_env(env)
  /\ pc' = "exit"
  /\ UNCHANGED <<env, stats, audit_log, richlist_raw, holders, idx,
                 transfers, audit_file, clock>>

Construct ==
  /\ pc = "start"
  /\ ~from_env_raises(env)
  /\ missing_vars(env) = {}
  /\ config' = from_env(env)
  /\ stats' = InitStats
  /\ audit_log' = <<>>
  /\ pc' = "richlist"
  /\ UNCHANGED <<env, richlist_raw, holders, idx, transfers, audit_file, clock>>

(***************************************************************************)
(* TokenDistributor.get_richlist                                           *)
(***************************************************************************)
\* passes_filter with the balance test "> 0" in place of ">= 1"
passes_filter_positive(raw, cfg) ==
  /\ DecCmp(DecimalOf(raw.balance), Dec(0, <<0>>, 0)) > 0
  /\ raw.account \notin cfg.blacklisted_accounts

\* the condition of the comprehension, for a balance that parses
passes_filter(raw, cfg) ==
  /\ DecCmp(DecimalOf(raw.balance), Dec(0, <<1>>, 0)) >= 0
  /\ raw.account \notin cfg.blacklisted_accounts

\* building the TokenHolder of one raw record raises: the balance does not
\* parse, or the record passes the filter and quantize overflows
holder_raises(raw, cfg) ==
  \/ ~DecimalParses(raw.balance)
  \/ /\ passes_filter(raw, cfg)
     /\ QuantizeRaises(DecimalOf(raw.balance), UnitExp)

TokenHolder(raw) ==
  [ account |-> raw.account,
    balance |-> Quantize(DecimalOf(raw.balance), UnitExp) ]

\* the list comprehension over richlist_raw
RECURSIVE richlist_holders(_, _)
richlist_holders(raws, cfg) ==
  IF Len(raws) = 0 THEN <<>>
  ELSE LET rest == richlist_holders(Tail(raws), cfg)
       IN  IF passes_filter(Head(raws), cfg)
           THEN <<TokenHolder(Head(raws))>> \o rest
           ELSE rest

richlist_raises(raws, cfg) ==
  \E i \in 1..Len(raws) : holder_raises(raws[i], cfg)

\* get_richlist that passes over the records it cannot convert instead of
\* giving up the batch
get_richlist_skipping(source_raises, raws, cfg) ==
  IF source_raises THEN <<>> ELSE richlist_holders(raws, cfg)

\* get_richlist: source_raises is token.get_holder() raising
get_richlist(source_raises, raws, cfg) ==
  IF source_raises \/ richlist_raises(raws, cfg)
  THEN <<>>
  ELSE richlist_holders(raws, cfg)

GetRichlist ==
  /\ pc = "richlist"
  /\ \E source_raises \in BOOLEAN, raws \in RawLists :
       /\ source_raises => raws = <<>>
       /\ richlist_raw' = [raised |-> source_raises, list |-> raws]
       /\ holders' = get_richlist(source_raises, raws, config)
       /\ stats' = IF source_raises \/ richlist_raises(raws, config)
                   THEN stats
                   ELSE [stats EXCEPT !.total_holders = Len(holders')]
  /\ idx' = 1
  /\ pc' = "pay"
  /\ UNCHANGED <<env, config, audit_log, transfers, audit_file, clock>>

(***************************************************************************)
(* TokenHolder.payment_amount, TokenDistributor.send_transaction           *)
(***************************************************************************)
\* the quantize of payment_amount raises InvalidOperation
payment_raises(holder, cfg) ==
  QuantizeRaises(DecMul(holder.balance, cfg.payout_rate), PaymentExp)

\* (balance * payout_rate).quantize(Decimal("0.0001"), rounding=ROUND_DOWN)
payment_amount(holder, cfg) ==
  Quantize(DecMul(holder.balance, cfg.payout_rate), PaymentExp)

\* the tx_id send_transaction computes from what transfer returned
tx_id_of(outcome) ==
  CASE outcome = "trx_id"    -> "2f9c01"
    [] outcome = "no_trx_id" -> ""
    [] outcome = "nothing"   -> "DRY_RUN"

\* send_transaction whose except branch forgets failed_payments
send_transaction_uncounted(st, amount, outcome) ==
  IF outcome = "raises"
  THEN [ ret |-> None, stats |-> st ]
  ELSE [ ret |-> Some(tx_id_of(outcome)),
         stats |-> [st EXCEPT
                      !.successful_payments = @ + 1,
                      !.total_tokens_distributed = DecAdd(@, amount)] ]

\* send_transaction: the returned Optional[str] and the stats it leaves
send_transaction(st, amount, outcome) ==
  IF outcome = "raises"
  THEN [ ret |-> None,
         stats |-> [st EXCEPT !.failed_payments = @ + 1] ]
  ELSE [ ret |-> Some(tx_id_of(outcome)),
         stats |-> [st EXCEPT
                      !.successful_payments = @ + 1,
                      !.total_tokens_distributed = DecAdd(@, amount)] ]

\* the dict process_payments appends for one attempt
AttemptRecord(holder, amount, tx_id, now) ==
  [ account |-> holder.account,
    balance |-> DecStr(holder.balance),
    payment |-> Format4f(amount),
    status |-> IF Truthy(tx_id) THEN "Success" ELSE "Failed",
    transaction_id |-> OrEmpty(tx_id),
    tx_timestamp |-> now,
    run_timestamp |-> Absent ]

\* the guard of the loop as "amount >= 0"
is_positive_or_zero(amount) == DecCmp(amount, Dec(0, <<0>>, PaymentExp)) >= 0

\* the guard of the loop as "amount != 0"
is_nonzero(amount) == DecCmp(amount, Dec(0, <<0>>, PaymentExp)) # 0

\* amount > Decimal("0.0000")
is_positive(amount) == DecCmp(amount, Dec(0, <<0>>, PaymentExp)) > 0

(***************************************************************************)
(* TokenDistributor.process_payments: one iteration of the loop per step   *)
(***************************************************************************)
\* payment_amount raises inside the loop: nothing catches it
ProcessCrash ==
  /\ pc = "pay"
  /\ idx <= Len(holders)
  /\ payment_raises(holders[idx], config)
  /\ pc' = "crashed"
  /\ UNCHANGED <<env, config, stats, audit_log, richlist_raw, holders, idx,
                 transfers, audit_file, clock>>

\* the amount is not positive: the holder is passed over
ProcessSkip ==
  /\ pc = "pay"
  /\ idx <= Len(holders)
  /\ ~payment_raises(holders[idx], config)
  /\ ~is_positive(payment_amount(holders[idx], config))
  /\ idx' = idx + 1
  /\ UNCHANGED <<env, pc, config, stats, audit_log, richlist_raw, holders,
                 transfers, audit_file, clock>>

\* the amount is positive: send_transaction, the audit record, sleep(1)
ProcessPay ==
  /\ pc = "pay"
  /\ idx <= Len(holders)
  /\ ~payment_raises(holders[idx], config)
  /\ LET holder == holders[idx]
         amount == payment_amount(holder, config)
     IN  /\ is_positive(amount)
         /\ \E outcome \in TransferOutcomes :
              LET sent == send_transaction(stats, amount, outcome)
              IN  /\ transfers' = Append(transfers,
                        [ recipient |-> holder.account,
                          amount |-> Format4f(amount),
                          outcome |-> outcome ])
                  /\ stats' = sent.stats
                  /\ audit_log' = Append(audit_log,
                        AttemptRecord(holder, amount, sent.ret, clock))
  /\ clock' = clock + 1
  /\ idx' = idx + 1
  /\ UNCHANGED <<env, pc, config, richlist_raw, holders, audit_file>>

\* the loop is over
ProcessDone ==
  /\ pc = "pay"
  /\ idx > Len(holders)
  /\ pc' = "audit"
  /\ UNCHANGED <<env, config, stats, audit_log, richlist_raw, holders, idx,
                 transfers, audit_file, clock>>

(***************************************************************************)
(* generate_audit_report, display_summary_report                           *)
(***************************************************************************)
\* generate_audit_report stamping the attempt time as well
with_run_timestamp_overwriting(log, timestamp) ==
  [i \in 1..Len(log) |->
     [log[i] EXCEPT !.run_timestamp = <<timestamp>>, !.tx_timestamp = timestamp]]

\* record["run_timestamp"] = timestamp for every record, then the CSV
with_run_timestamp(log, timestamp) ==
  [i \in 1..Len(log) |-> [log[i] EXCEPT !.run_timestamp = <<timestamp>>]]

GenerateAuditReport ==
  /\ pc = "audit"
  /\ audit_log' = with_run_timestamp(audit_log, clock)
  /\ audit_file' = [written |-> TRUE, rows |-> audit_log']
  /\ pc' = "summary"
  /\ UNCHANGED <<env, config, stats, richlist_raw, holders, idx, transfers,
                 clock>>

\* reads stats and config, prints, changes nothing
DisplaySummaryReport ==
  /\ pc = "summary"
  /\ pc' = "done"
  /\ UNCHANGED <<env, config, stats, audit_log, richlist_raw, holders, idx,
                 transfers, audit_file, clock>>

Next ==
  \/ ConstructCrash
  \/ ConstructExit
  \/ Construct
  \/ GetRichlist
  \/ ProcessCrash
  \/ ProcessSkip
  \/ ProcessPay
  \/ ProcessDone
  \/ GenerateAuditReport
  \/ DisplaySummaryReport

Spec == Init /\ [][Next]_vars

(***************************************************************************)
(* Definitions shared by the properties                                    *)
(***************************************************************************)
AfterPayments == pc \in {"audit", "summary", "done"}

\* the exact sum of two non-negative Decimals (no context rounding)
ExactAdd(x, y) ==
  LET e == MinOf(x.exp, y.exp)
  IN  Dec(0, NatAdd(Aligned(x, e), Aligned(y, e)), e)

\* the sum of the payment column over the first n records of status Success
RECURSIVE SuccessSumTo(_, _)
SuccessSumTo(log, n) ==
  IF n = 0 THEN Dec(0, <<0>>, PaymentExp)
  ELSE IF log[n].status = "Success"
       THEN ExactAdd(SuccessSumTo(log, n - 1), DecimalOf(log[n].payment))
       ELSE SuccessSumTo(log, n - 1)

SuccessSum(log) == SuccessSumTo(log, Len(log))

\* the quantized amount is at least 0.0001
Eligible(holder) ==
  DecCmp(payment_amount(holder, config), Dec(0, <<1>>, PaymentExp)) >= 0

RECURSIVE EligibleAccounts(_)
EligibleAccounts(hs) ==
  IF Len(hs) = 0 THEN <<>>
  ELSE IF Eligible(Head(hs))
       THEN <<Head(hs).account>> \o EligibleAccounts(Tail(hs))
       ELSE EligibleAccounts(Tail(hs))

Recipients == [i \in 1..Len(transfers) |-> transfers[i].recipient]

(***************************************************************************)
(* C1  Conservation: once process_payments has run, the sum of the         *)
(* payments of the audit records of status Success equals                  *)
(* stats.total_tokens_distributed, whatever the transfers did.             *)
(* Violated: a response without trx_id is counted into the total by        *)
(* send_transaction and recorded as Failed by process_payments.            *)
(***************************************************************************)
C1_Conservation ==
  AfterPayments =>
    DecCmp(SuccessSum(audit_log), stats.total_tokens_distributed) = 0

(***************************************************************************)
(* C2  Partial-failure tolerance: the transfer calls made so far are the   *)
(* eligible holders among those the loop has passed, each once and in      *)
(* input order, whichever of them raised; failed_payments plus             *)
(* successful_payments is the number of attempts; and when                 *)
(* process_payments has finished every eligible holder has been attempted. *)
(***************************************************************************)
C2_PartialFailure ==
  /\ Recipients = EligibleAccounts(SubSeq(holders, 1, idx - 1))
  /\ stats.failed_payments + stats.successful_payments = Len(transfers)
  /\ AfterPayments => idx = Len(holders) + 1

\* a run that finished with a transfer that raised followed by one that
\* did not
C2_Witness ==
  /\ pc = "done"
  /\ Len(transfers) >= 2
  /\ transfers[1].outcome = "raises"
  /\ transfers[2].outcome # "raises"
  /\ stats.failed_payments = 1

(***************************************************************************)
(* C3  Payout amount: for a holder of balance B >= 1 and a rate R > 0,     *)
(* payment_amount (when it returns) is the exact product B*R truncated     *)
(* toward zero to 4 fractional digits, and so never exceeds B*R.           *)
(* Violated: the product is rounded half-even to 16 significant digits     *)
(* before it is quantized, and the rounding can carry into the 4th digit.  *)
(***************************************************************************)
C3_PaymentFloor ==
  (pc = "pay" /\ DecCmp(config.payout_rate, Dec(0, <<0>>, 0)) > 0) =>
    \A i \in 1..Len(holders) :
      LET exact == ExactMul(holders[i].balance, config.payout_rate)
          paid  == payment_amount(holders[i], config)
      IN  ~payment_raises(holders[i], config) =>
            /\ DecCmp(paid, Rescale(exact, PaymentExp)) = 0
            /\ DecCmp(paid, exact) <= 0

(***************************************************************************)
(* C4  Live-mode classification: the record of an attempt has status       *)
(* Success whenever transfer returned without raising, also when the       *)
(* response carries no trx_id (the transaction id is then empty), and has  *)
(* status Failed with an empty transaction id exactly when transfer        *)
(* raised.                                                                 *)
(* Violated: a response without trx_id is recorded as Failed.              *)
(***************************************************************************)
C4_LiveClassification ==
  ~config.nobroadcast =>
    \A i \in 1..Len(audit_log) :
      /\ transfers[i].outcome # "raises" <=> audit_log[i].status = "Success"
      /\ transfers[i].outcome = "raises" <=>
           (audit_log[i].status = "Failed" /\ audit_log[i].transaction_id = "")
      /\ transfers[i].outcome = "no_trx_id" =>
           audit_log[i].transaction_id = ""

(***************************************************************************)
(* C5  Dry-run: with config.nobroadcast set, every attempt is recorded as  *)
(* Success with a non-empty transaction id, whatever transfer returned or  *)
(* raised, and its amount is added to total_tokens_distributed.            *)
(* Violated: send_transaction does not look at nobroadcast; a transfer     *)
(* that raises, or answers without trx_id, is recorded as Failed.          *)
(***************************************************************************)
C5_DryRun ==
  config.nobroadcast =>
    /\ \A i \in 1..Len(audit_log) :
         /\ audit_log[i].status = "Success"
         /\ audit_log[i].transaction_id # ""
    /\ DecCmp(SuccessSum(audit_log), stats.total_tokens_distributed) = 0

(***************************************************************************)
(* C6  Holder filter: when the source answered and every record converts   *)
(* (its balance parses and building its TokenHolder raises nothing),       *)
(* get_richlist returns, in input order, exactly the records whose balance *)
(* truncated toward zero to whole units is >= 1 and whose account is not   *)
(* blacklisted, each with that truncated balance; so every holder has a    *)
(* balance >= 1 and an account outside the blacklist.                      *)
(***************************************************************************)
\* the whole units of a parsed balance: the digits left of the point
WholeUnits(d) ==
  IF d.exp >= 0 THEN StripZeros(d.int \o Zeros(d.exp))
  ELSE IF Len(d.int) + d.exp <= 0 THEN <<0>>
  ELSE SubSeq(d.int, 1, Len(d.int) + d.exp)

Admitted(raw) ==
  LET d == DecimalOf(raw.balance)
  IN  /\ d.sign = 0
      /\ NatCmp(WholeUnits(d), <<1>>) >= 0
      /\ raw.account \notin config.blacklisted_accounts

AdmittedIndexes == {i \in 1..Len(richlist_raw.list) : Admitted(richlist_raw.list[i])}

\* the k-th admitted record of the raw list
NthAdmitted(k) ==
  CHOOSE i \in AdmittedIndexes :
    Cardinality({j \in AdmittedIndexes : j <= i}) = k

AllConvert ==
  /\ ~richlist_raw.raised
  /\ \A i \in 1..Len(richlist_raw.list) :
       ~holder_raises(richlist_raw.list[i], config)

C7_Step ==
  (pc = "pay" /\ idx <= Len(holders) /\ idx' = idx + 1) =>
    IF Eligible(holders[idx])
    THEN /\ Len(transfers') = Len(transfers) + 1
         /\ SubSeq(transfers', 1, Len(transfers)) = transfers
         /\ transfers'[Len(transfers')].recipient = holders[idx].account
         /\ transfers'[Len(transfers')].amount =
              Format4f(payment_amount(holders[idx], config))
         /\ Len(audit_log') = Len(audit_log) + 1
         /\ audit_log'[Len(audit_log')].account = holders[idx].account
    ELSE /\ transfers' = transfers
         /\ audit_log' = audit_log
         /\ stats' = stats

C7_Counted ==
  pc \in {"pay", "audit", "summary", "done"} =>
    stats.total_holders = Len(holders)

C7_Ineligible == []C7_Counted /\ [][C7_Step]_vars

\* a finished run over two holders, one of them ineligible: one attempt,
\* two holders counted
C7_Witness ==
  /\ pc = "done"
  /\ Len(holders) = 2
  /\ \E i \in 1..2 : ~Eligible(holders[i])
  /\ Len(transfers) = 1
  /\ Len(audit_log) = 1
  /\ stats.total_holders = 2
  /\ stats.successful_payments + stats.failed_payments = 1

(***************************************************************************)
(* C8  Retrieval failure: when the source raises or some record has an     *)
(* unparseable balance, get_richlist returns an empty list (the            *)
(* well-formed records of the batch are dropped too); the run neither      *)
(* exits nor crashes, always has a next step until it is done, makes no    *)
(* transfer call, keeps the audit log empty and writes the audit file.     *)
(***************************************************************************)
RetrievalFailed ==
  \/ richlist_raw.raised
  \/ \E i \in 1..Len(richlist_raw.list) :
       ~DecimalParses(richlist_raw.list[i].balance)

C8_RetrievalFailure ==
  RetrievalFailed =>
    /\ Len(holders) = 0
    /\ stats.total_holders = 0
    /\ Len(transfers) = 0
    /\ Len(audit_log) = 0
    /\ pc \in {"pay", "audit", "summary", "done"}
    /\ pc # "done" => ENABLED Next
    /\ pc \in {"summary", "done"} =>
         (audit_file.written /\ Len(audit_file.rows) = 0)

\* a finished run whose batch had a well-formed, payable record before an
\* unparseable one
C8_Witness ==
  /\ pc = "done"
  /\ ~richlist_raw.raised
  /\ Len(richlist_raw.list) = 2
  /\ richlist_raw.list[1] = RawHolder("alice", <<"1", "0", "0">>)
  /\ ~DecimalParses(richlist_raw.list[2].balance)
  /\ config.payout_rate = Dec(0, <<2, 5>>, 0 - 2)
  /\ audit_file.written

(***************************************************************************)
(* C9  Payout rate                                                         *)
(***************************************************************************)
NonPositiveRate ==
  /\ DecimalParses(env.PAYOUT_RATE)
  /\ DecCmp(DecimalOf(env.PAYOUT_RATE), Dec(0, <<0>>, 0)) <= 0

Created(r) ==
  <<r.account, r.balance, r.payment, r.status, r.transaction_id,
    r.tx_timestamp>>

\* C10 as claimed: the log only grows by appending, and no step changes a
\* record that is in it.
\* Violated: generate_audit_report sets run_timestamp in every record.
C10_NeverModified ==
  [][ /\ Len(audit_log') >= Len(audit_log)
      /\ \A i \in 1..Len(audit_log) : audit_log'[i] = audit_log[i] ]_vars

\* C10 as amended: the log only grows by appending at the end; no step
\* removes or reorders records or changes a field a record was created
\* with; the one change to existing records is generate_audit_report
\* setting their run_timestamp.
C10_AppendOnly ==
  [][ /\ Len(audit_log') >= Len(audit_log)
      /\ \A i \in 1..Len(audit_log) :
           /\ Created(audit_log'[i]) = Created(audit_log[i])
           /\ audit_log'[i].run_timestamp # audit_log[i].run_timestamp =>
                (pc = "audit" /\ pc' = "summary")
      /\ Len(audit_log') > Len(audit_log) =>
           (pc = "pay" /\ Len(audit_log') = Len(audit_log) + 1) ]_vars

\* a finished run whose two records were appended one after the other and
\* then stamped by generate_audit_report
C10_Witness ==
  /\ pc = "done"
  /\ Len(audit_log) = 2
  /\ audit_log[1].tx_timestamp < audit_log[2].tx_timestamp
  /\ \A i \in 1..2 : audit_log[i].run_timestamp # Absent

(***************************************************************************)
(* C11  Stats and audit trail agree: after every completed dispatch        *)
(* attempt, successful_payments is the number of audit records of status   *)
(* Success and failed_payments the number of status Failed, whatever the   *)
(* transfer call did.                                                      *)
(* Violated: a response without trx_id increments successful_payments in   *)
(* send_transaction and is recorded as Failed by process_payments.         *)
(***************************************************************************)
CountStatus(log, status) ==
  Cardinality({i \in 1..Len(log) : log[i].status = status})

C11_StatsAgree ==
  pc \in {"pay", "audit", "summary", "done"} =>
    /\ stats.successful_payments = CountStatus(audit_log, "Success")
    /\ stats.failed_payments = CountStatus(audit_log, "Failed")

====
